---- MODULE Spec2Model ----
(***************************************************************************)
(* A model of readwise_chat/server.py: the MCP server that lists and saves *)
(* Readwise Reader documents and caches fetched documents by title.        *)
(*                                                                         *)
(* Every handler (tool call, resource listing, resource read, prompt) runs *)
(* as a coroutine on one asyncio event loop.  A handler runs without       *)
(* interruption from one await that really suspends (an HTTP exchange, the *)
(* resource-list-changed notification) to the next, so each action below   *)
(* is the code between two such awaits.  time.sleep() does not suspend: it *)
(* blocks the thread of the event loop.                                    *)
(***************************************************************************)
EXTENDS Integers, Sequences, FiniteSets, TLC

VARIABLES
    documents,  \* the store (server.py:23): a dict, kept as its ordered items
    pc,         \* per handler: where the coroutine is suspended
    call,       \* per handler: the request it serves
    params,     \* per handler: the params dict of fetch_documents
    results,    \* per handler: the results list of fetch_documents
    out,        \* per handler: what the handler returned or raised
    sent,       \* per handler: the HTTP requests it issued, in order
    recv,       \* per handler: the HTTP responses it received, in order
    sleeps,     \* per handler: the durations it passed to sleep(), in order
    nreqs       \* HTTP requests issued by the whole process

vars == <<documents, pc, call, params, results, out, sent, recv, sleeps, nreqs>>

(***************************************************************************)
(* Bounds and input domains.                                               *)
(***************************************************************************)
\* HTTP requests the process issues in one run of the model.
MaxRequests == 3

\* Python's None, and the absence of a key in a dict.
None == "None"

\* The handler slots the host serves concurrently.
Procs == {"h1", "h2"}

\* bool(x) of an Optional[str].
Truthy(x) == x # None /\ x # ""

VALID_LOCATIONS == {"new", "later", "shortlist", "archive", "feed"}

VALID_CATEGORIES ==
    {"article", "email", "rss", "highlight", "note", "pdf", "epub", "tweet", "video"}

\* Python's True.
DEFAULT_INCLUDE_HTML_CONTENT == "True"

\* models.Document, with the fields the handlers read.
Document(id, title, summary) == [id |-> id, title |-> title, summary |-> summary]

d1 == Document("id1", "T1", None)
d2 == Document("id2", "T1", "S2")
d3 == Document("id3", "T2", None)

Docs == {d1, d2, d3}

\* The results a list page may carry.
ResultLists == {<< >>, <<d1>>, <<d3>>, <<d1, d2>>}

\* A response body that is the JSON of a list page.
PageBody(cursor, res) == [kind |-> "page", cursor |-> cursor, results |-> res]

\* A response body that is the JSON of a save result.
SavedBody(id, url) == [kind |-> "saved", id |-> id, url |-> url]

\* A response body that is not the JSON the model class wants.
Garbage == [kind |-> "garbage"]

\* The list pages the remote service may send: a last page (no cursor) with
\* any of the result lists, and pages that name a next page.
PageBodies ==
    {PageBody(None, r) : r \in ResultLists}
        \cup {PageBody("cA", << >>), PageBody("cA", <<d3>>), PageBody("cB", <<d1, d2>>)}

Response(status, retryAfter, body) ==
    [status |-> status, retryAfter |-> retryAfter, body |-> body]

\* What the remote service may answer to GET /list.
GetResponses ==
    {Response(200, None, b) : b \in PageBodies \cup {Garbage}}
        \cup {Response(429, h, Garbage) : h \in {None, "1", "2"}}
        \cup {Response(500, None, b) : b \in {Garbage, PageBody(None, <<d1>>)}}

\* What the remote service may answer to POST /save.
PostResponses ==
    {Response(s, None, b) :
        s \in {200, 201, 204, 302, 500}, b \in {SavedBody("id9", "r9"), Garbage}}
        \cup {Response(429, h, Garbage) : h \in {None, "1"}}

\* int(s) of a Retry-After header holding decimal digits.
IntOf(s) == CASE s = "1" -> 1 [] s = "2" -> 2

Args(url, location, category, updated_after) ==
    [url |-> url, location |-> location, category |-> category,
     updated_after |-> updated_after]

\* The arguments dict with no key at all.
NoArgs == Args(None, None, None, None)

\* The tool calls the host may make: (name, arguments).
ToolCalls ==
    {<<"add-document", a>> : a \in {NoArgs, Args("u1", None, None, None),
                                     Args(None, "new", None, None)}}
        \cup {<<"get-document", a>> :
                a \in {NoArgs,
                       Args(None, "new", None, None),
                       Args(None, "later", "pdf", "2024-05-01"),
                       Args(None, "new", "", None),
                       Args(None, "new", "book", None),
                       Args(None, "trash", None, None),
                       Args(None, "trash", "pdf", None),
                       Args(None, "", "pdf", None),
                       Args(None, "new", None, "yesterday"),
                       Args("u1", None, None, None)}}
        \cup {<<"del-document", Args("u1", None, None, None)>>}


\* The read-resource URIs the host may ask for, as pydantic.AnyUrl splits them.
Uri(scheme, host, path) == [scheme |-> scheme, host |-> host, path |-> path]

Uris ==
    {Uri("readwise", "list", "/T1"), Uri("document", "list", "/T1"),
     Uri("document", "list", "/T2"), Uri("document", "list", "/T9"),
     Uri("document", "T1", None)}

\* The prompt requests the host may make: (name, style argument).
PromptCalls ==
    {<<"summarize-notes", None>>, <<"summarize-notes", "detailed">>,
     <<"list-documents-by-location", None>>}

(***************************************************************************)
(* Values the handlers return or raise.                                    *)
(***************************************************************************)
Outcome(kind, exc, msg, id, items) ==
    [kind |-> kind, exc |-> exc, msg |-> msg, id |-> id, items |-> items]

\* Nothing returned yet.
NoOut == Outcome("none", None, None, None, << >>)

\* An exception leaving the handler.
Error(exc, msg) == Outcome("error", exc, msg, None, << >>)

\* [types.TextContent(type="text", text=...)]
TextContent(msg, id, items) == Outcome("text", None, msg, id, items)

\* The params dict of fetch_documents; None marks a key that is not set.
Params(location, category, updatedAfter, withHtmlContent, pageCursor) ==
    [location |-> location, category |-> category, updatedAfter |-> updatedAfter,
     withHtmlContent |-> withHtmlContent, pageCursor |-> pageCursor]

NoParams == Params(None, None, None, None, None)

\* An HTTP request as the remote service sees it.
GetRequest(ps) == [method |-> "GET", params |-> ps, url |-> None]

PostRequest(url) == [method |-> "POST", params |-> NoParams, url |-> url]

(***************************************************************************)
(* The document store: documents[title] = doc on a Python dict, which      *)
(* keeps insertion order and keeps a key's position when it is overwritten.*)
(***************************************************************************)
Item(key, doc) == [key |-> key, doc |-> doc]

Keys(store) == {store[i].key : i \in 1..Len(store)}

\* Iterating a dict yields its keys.
DictIter(store) == [i \in 1..Len(store) |-> store[i].key]

\* store[key]
GetItem(store, key) == store[CHOOSE i \in 1..Len(store) : store[i].key = key].doc

\* SetItem that leaves an existing key alone.
SetItem_KeepsFirst(store, key, doc) ==
    IF key \in Keys(store) THEN store ELSE Append(store, Item(key, doc))

\* An assignment that rebinds the store to a fresh dict holding the one entry.
SetItem_Resets(store, key, doc) == <<Item(key, doc)>>

\* store[key] = doc
SetItem(store, key, doc) ==
    IF key \in Keys(store)
    THEN [i \in 1..Len(store) |->
            IF store[i].key = key THEN Item(key, doc) ELSE store[i]]
    ELSE Append(store, Item(key, doc))

\* A loop that yields to the event loop after its first assignment: the rest
\* of the fetched documents is not in the store when the others run.
UpsertAll_FirstOnly(store, fetched) ==
    IF fetched = << >> THEN store
    ELSE SetItem(store, Head(fetched).title, Head(fetched))

\* for doc in fetched_documents: documents[doc.title] = doc
RECURSIVE UpsertAll(_, _)
UpsertAll(store, fetched) ==
    IF fetched = << >> THEN store
    ELSE UpsertAll(SetItem(store, Head(fetched).title, Head(fetched)), Tail(fetched))


(***************************************************************************)
(* The pure parts of the handlers.  A step record says where the code goes *)
(* next ("to") and carries the values it has computed.                     *)
(***************************************************************************)
Step(to, o, ps, res) ==
    [to |-> to, out |-> o, params |-> ps, results |-> res]

Raise(exc, msg) == Step("raise", Error(exc, msg), NoParams, << >>)

\* datetime.fromisoformat(date).isoformat(): a date gains its midnight time,
\* anything that is no ISO-8601 text raises ValueError.
format_iso_datetime(date) ==
    CASE date = "2024-05-01" -> [ok |-> TRUE, value |-> "2024-05-01T00:00:00"]
      [] date = "2024-05-01T00:00:00" -> [ok |-> TRUE, value |-> "2024-05-01T00:00:00"]
      [] OTHER -> [ok |-> FALSE, value |-> None]

\* fetch_documents up to its first request: validation and the params dict.
FetchParams(location, category, updated_after) ==
    IF location \notin VALID_LOCATIONS
    THEN Raise("ValueError", "Invalid location")
    ELSE IF Truthy(category) /\ category \notin VALID_CATEGORIES
    THEN Raise("ValueError", "Invalid category")
    ELSE Step("get", NoOut,
              Params(location,
                     IF Truthy(category) THEN category ELSE None,
                     IF Truthy(updated_after) THEN updated_after ELSE None,
                     DEFAULT_INCLUDE_HTML_CONTENT,
                     None),
              << >>)

\* handle_call_tool up to its first await.
CallToolEntry(name, arguments) ==
    IF arguments = NoArgs
    THEN Raise("ValueError", "Missing arguments")
    ELSE IF name = "add-document"
    THEN IF ~Truthy(arguments.url)
         THEN Raise("ValueError", "Missing name or content")
         ELSE Step("post", NoOut, NoParams, << >>)
    ELSE IF name = "get-document"
    THEN LET updated_after == arguments.updated_after
             formatted == IF Truthy(updated_after)
                          THEN format_iso_datetime(updated_after)
                          ELSE [ok |-> TRUE, value |-> None]
         IN  IF ~formatted.ok
             THEN Raise("ValueError", "Invalid isoformat string")
             ELSE IF ~Truthy(arguments.location)
             THEN Raise("ValueError", "Missing location or category")
             ELSE FetchParams(arguments.location, arguments.category, formatted.value)
    ELSE Raise("ValueError", "Unknown tool")

\* GetResponse(**response.json()): pydantic accepts the body or raises.
ParseGetResponse(body) == body.kind = "page"

\* What _get_request / _post_request does with one response: return a value,
\* raise, or sleep and ask again.
Returned(value) == [to |-> "return", out |-> NoOut, value |-> value, wait |-> 0]

Raised(exc, msg) == [to |-> "raise", out |-> Error(exc, msg), value |-> Garbage, wait |-> 0]

Retry(wait) == [to |-> "sleep", out |-> NoOut, value |-> Garbage, wait |-> wait]

\* RetryAfter with a wait that ignores what the header says.
RetryAfter_FixedWait(r) ==
    IF r.retryAfter = None
    THEN Raised("KeyError", "Retry-After")
    ELSE Retry(1)

\* The lines both request functions share: int(response.headers["Retry-After"])
\* and sleep(wait_time).
RetryAfter(r) ==
    IF r.retryAfter = None
    THEN Raised("KeyError", "Retry-After")
    ELSE Retry(IntOf(r.retryAfter))

\* _get_request after its await, on response r.
GetRequestOn(r) ==
    IF r.status # 429
    THEN IF ParseGetResponse(r.body)
         THEN Returned(r.body)
         ELSE Raised("ValidationError", "GetResponse")
    ELSE RetryAfter(r)

\* FetchOnPage without the else branch of the loop: the results of the page
\* that names no next page are not added.
FetchOnPage_DropsLast(ps, res, page) ==
    IF Truthy(page.cursor)
    THEN Step("get", NoOut, [ps EXCEPT !.pageCursor = page.cursor],
              res \o page.results)
    ELSE Step("return", NoOut, ps, res)

\* FetchOnPage that also leaves the loop on a page without documents, whether
\* or not the page names a next one.
FetchOnPage_StopsOnEmpty(ps, res, page) ==
    IF Truthy(page.cursor) /\ page.results # << >>
    THEN Step("get", NoOut, [ps EXCEPT !.pageCursor = page.cursor],
              res \o page.results)
    ELSE Step("return", NoOut, ps, res \o page.results)

\* FetchOnPage with params.setdefault("pageCursor", ...): the cursor of the
\* first page is kept for every later request.
FetchOnPage_StaleCursor(ps, res, page) ==
    IF Truthy(page.cursor)
    THEN Step("get", NoOut,
              IF ps.pageCursor = None THEN [ps EXCEPT !.pageCursor = page.cursor]
              ELSE ps,
              res \o page.results)
    ELSE Step("return", NoOut, ps, res \o page.results)

\* The while/else of fetch_documents on the page _get_request returned.
FetchOnPage(ps, res, page) ==
    IF Truthy(page.cursor)
    THEN Step("get", NoOut, [ps EXCEPT !.pageCursor = page.cursor],
              res \o page.results)
    ELSE Step("return", NoOut, ps, res \o page.results)

\* format_document: one line per field, "Unknown" or "None" for a missing one.
format_document(document) ==
    <<<<"Title", IF Truthy(document.title) THEN document.title ELSE "Unknown">>,
      <<"Summary", IF Truthy(document.summary) THEN document.summary ELSE "None">>>>

\* GetDocumentOnFetched without the test for an empty list.
GetDocumentOnFetched_NoEmptyTest(fetched_documents) ==
    Step("upsert", NoOut, NoParams, fetched_documents)

\* handle_call_tool, get-document, once fetch_documents has returned.
GetDocumentOnFetched(fetched_documents) ==
    IF fetched_documents = << >>
    THEN Step("done", TextContent("No documents found.", None, << >>),
              NoParams, fetched_documents)
    ELSE Step("upsert", NoOut, NoParams, fetched_documents)

\* The text get-document returns after the notification.
DocumentsFound(fetched_documents) ==
    TextContent("documents found:", None,
                [i \in 1..Len(fetched_documents) |->
                    format_document(fetched_documents[i])])


\* raise_for_status that neither raises nor returns anything.
raise_for_status_Silent(r) == None

\* httpx.Response.raise_for_status() (httpx >= 0.25, which the mcp package
\* requires): raises HTTPStatusError unless the status is 2xx, and returns the
\* response itself, which is truthy.
raise_for_status(r) ==
    IF r.status \in 200..299 THEN "response" ELSE "HTTPStatusError"

\* PostResponse(**kwargs): pydantic wants both id and url.
ParsePostResponse(body) == body.kind = "saved"

\* The keyword arguments of PostResponse(): none.
NoKwargs == [kind |-> "empty"]

\* _post_request after its await, on response r.  A returned value is the
\* tuple (existed, PostResponse).
PostRequestOn(r) ==
    LET checked == raise_for_status(r) IN
    IF checked = "HTTPStatusError"
    THEN Raised("HTTPStatusError", "status")
    ELSE IF checked # None
    THEN IF ParsePostResponse(NoKwargs)
         THEN Returned([existed |-> FALSE, response |-> NoKwargs])
         ELSE Raised("ValidationError", "PostResponse")
    ELSE IF r.status # 429
    THEN IF ParsePostResponse(r.body)
         THEN Returned([existed |-> (r.status = 200), response |-> r.body])
         ELSE Raised("ValidationError", "PostResponse")
    ELSE RetryAfter(r)

\* handle_call_tool, add-document, once save_document has returned.
AddDocumentOnSaved(document_already_exists, response) ==
    IF document_already_exists
    THEN TextContent("Document already exists with the ID:", response.id, << >>)
    ELSE TextContent("Added document with the ID:", response.id, << >>)


(***************************************************************************)
(* The state machine.                                                      *)
(***************************************************************************)
Init ==
    /\ documents = << >>
    /\ pc = [p \in Procs |-> "idle"]
    /\ call = [p \in Procs |-> <<"none", NoArgs>>]
    /\ params = [p \in Procs |-> NoParams]
    /\ results = [p \in Procs |-> << >>]
    /\ out = [p \in Procs |-> NoOut]
    /\ sent = [p \in Procs |-> << >>]
    /\ recv = [p \in Procs |-> << >>]
    /\ sleeps = [p \in Procs |-> << >>]
    /\ nreqs = 0

\* The event loop can run handler p: no other handler holds its thread in
\* time.sleep().  (A handler that has ended is collected by the host before the
\* loop runs anything else: an ended handler does nothing more, so this only
\* fixes the moment at which its outcome is looked at.)
CanRun(p) == \A q \in Procs \ {p} : pc[q] \notin {"sleep", "done"}

\* The host can hand a new request to slot p.
Free(p) == pc[p] = "idle" /\ CanRun(p)

\* Handler p starts serving request c: its locals are fresh.
Enter(p, c) ==
    /\ call' = [call EXCEPT ![p] = c]
    /\ recv' = [recv EXCEPT ![p] = << >>]
    /\ sleeps' = [sleeps EXCEPT ![p] = << >>]

\* Handler p ends with outcome o, returned or raised.
Leave(p, o) ==
    /\ pc' = [pc EXCEPT ![p] = "done"]
    /\ out' = [out EXCEPT ![p] = o]

\* Handler p issues request q and suspends at pc w until the response.
Issue(p, q, w) ==
    /\ nreqs < MaxRequests
    /\ nreqs' = nreqs + 1
    /\ sent' = [sent EXCEPT ![p] = Append(@, q)]
    /\ pc' = [pc EXCEPT ![p] = w]

\* CallTool with a params dict that outlives the call and is shared by the
\* handlers (a module-level or default-argument dict): a new fetch starts with
\* the pageCursor the other handler has left in it.
CallTool_SharedParams(p, name, arguments) ==
    /\ Free(p)
    /\ Enter(p, <<name, arguments>>)
    /\ LET other == CHOOSE q \in Procs : q # p
           own == CallToolEntry(name, arguments)
           e == IF own.to = "get"
                THEN [own EXCEPT !.params.pageCursor = params[other].pageCursor]
                ELSE own
       IN
        /\ params' = [params EXCEPT ![p] = e.params]
        /\ results' = [results EXCEPT ![p] = << >>]
        /\ IF e.to = "raise"
           THEN /\ Leave(p, e.out)
                /\ sent' = [sent EXCEPT ![p] = << >>]
                /\ UNCHANGED nreqs
           ELSE /\ out' = [out EXCEPT ![p] = NoOut]
                /\ nreqs < MaxRequests
                /\ nreqs' = nreqs + 1
                /\ sent' = [sent EXCEPT ![p] =
                              <<IF e.to = "get" THEN GetRequest(e.params)
                                ELSE PostRequest(arguments.url)>>]
                /\ pc' = [pc EXCEPT ![p] =
                            IF e.to = "get" THEN "get_wait" ELSE "post_wait"]
    /\ UNCHANGED documents

\* handle_call_tool from its entry to the first HTTP request or to its end.
CallTool(p, name, arguments) ==
    /\ Free(p)
    /\ Enter(p, <<name, arguments>>)
    /\ LET e == CallToolEntry(name, arguments) IN
        /\ params' = [params EXCEPT ![p] = e.params]
        /\ results' = [results EXCEPT ![p] = << >>]
        /\ IF e.to = "raise"
           THEN /\ Leave(p, e.out)
                /\ sent' = [sent EXCEPT ![p] = << >>]
                /\ UNCHANGED nreqs
           ELSE /\ out' = [out EXCEPT ![p] = NoOut]
                /\ nreqs < MaxRequests
                /\ nreqs' = nreqs + 1
                /\ sent' = [sent EXCEPT ![p] =
                              <<IF e.to = "get" THEN GetRequest(e.params)
                                ELSE PostRequest(arguments.url)>>]
                /\ pc' = [pc EXCEPT ![p] =
                            IF e.to = "get" THEN "get_wait" ELSE "post_wait"]
    /\ UNCHANGED documents

\* RecvGet that writes each page to the store as it arrives instead of
\* gathering the pages first.
RecvGet_StoresEachPage(p, r) ==
    /\ pc[p] = "get_wait"
    /\ CanRun(p)
    /\ recv' = [recv EXCEPT ![p] = Append(@, r)]
    /\ LET g == GetRequestOn(r) IN
       IF g.to = "raise"
       THEN /\ Leave(p, g.out)
            /\ UNCHANGED <<documents, call, params, results, sent, sleeps, nreqs>>
       ELSE IF g.to = "sleep"
       THEN /\ nreqs < MaxRequests
            /\ pc' = [pc EXCEPT ![p] = "sleep"]
            /\ sleeps' = [sleeps EXCEPT ![p] = Append(@, g.wait)]
            /\ UNCHANGED <<documents, call, params, results, out, sent, nreqs>>
       ELSE LET f == FetchOnPage(params[p], results[p], g.value) IN
            /\ results' = [results EXCEPT ![p] = f.results]
            /\ params' = [params EXCEPT ![p] = f.params]
            /\ IF f.to = "get"
               THEN /\ Issue(p, GetRequest(f.params), "get_wait")
                    /\ documents' = UpsertAll(documents, g.value.results)
                    /\ UNCHANGED <<call, out, sleeps>>
               ELSE LET h == GetDocumentOnFetched(f.results) IN
                    IF h.to = "done"
                    THEN /\ Leave(p, h.out)
                         /\ UNCHANGED <<documents, call, sent, sleeps, nreqs>>
                    ELSE /\ documents' = UpsertAll(documents, h.results)
                         /\ pc' = [pc EXCEPT ![p] = "notify"]
                         /\ UNCHANGED <<call, out, sent, sleeps, nreqs>>


\* fetch_documents and handle_call_tool resumed by the response r to GET /list:
\* _get_request, then the while/else, then the store update.
RecvGet(p, r) ==
    /\ pc[p] = "get_wait"
    /\ CanRun(p)
    /\ recv' = [recv EXCEPT ![p] = Append(@, r)]
    /\ LET g == GetRequestOn(r) IN
       IF g.to = "raise"
       THEN /\ Leave(p, g.out)
            /\ UNCHANGED <<documents, call, params, results, sent, sleeps, nreqs>>
       ELSE IF g.to = "sleep"
       THEN /\ nreqs < MaxRequests
            /\ pc' = [pc EXCEPT ![p] = "sleep"]
            /\ sleeps' = [sleeps EXCEPT ![p] = Append(@, g.wait)]
            /\ UNCHANGED <<documents, call, params, results, out, sent, nreqs>>
       ELSE LET f == FetchOnPage(params[p], results[p], g.value) IN
            /\ results' = [results EXCEPT ![p] = f.results]
            /\ params' = [params EXCEPT ![p] = f.params]
            /\ IF f.to = "get"
               THEN /\ Issue(p, GetRequest(f.params), "get_wait")
                    /\ UNCHANGED <<documents, call, out, sleeps>>
               ELSE LET h == GetDocumentOnFetched(f.results) IN
                    IF h.to = "done"
                    THEN /\ Leave(p, h.out)
                         /\ UNCHANGED <<documents, call, sent, sleeps, nreqs>>
                    ELSE /\ documents' = UpsertAll(documents, h.results)
                         /\ pc' = [pc EXCEPT ![p] = "notify"]
                         /\ UNCHANGED <<call, out, sent, sleeps, nreqs>>

\* handle_call_tool resumed by the response r to POST /save.
RecvPost(p, r) ==
    /\ pc[p] = "post_wait"
    /\ CanRun(p)
    /\ recv' = [recv EXCEPT ![p] = Append(@, r)]
    /\ LET g == PostRequestOn(r) IN
       IF g.to = "raise"
       THEN /\ Leave(p, g.out)
            /\ UNCHANGED <<sleeps>>
       ELSE IF g.to = "sleep"
       THEN /\ nreqs < MaxRequests
            /\ pc' = [pc EXCEPT ![p] = "sleep"]
            /\ sleeps' = [sleeps EXCEPT ![p] = Append(@, g.wait)]
            /\ UNCHANGED <<out>>
       ELSE /\ pc' = [pc EXCEPT ![p] = "notify"]
            /\ out' = [out EXCEPT ![p] =
                         AddDocumentOnSaved(g.value.existed, g.value.response)]
            /\ UNCHANGED <<sleeps>>
    /\ UNCHANGED <<documents, call, params, results, sent, nreqs>>

\* sleep(wait_time) is over: the request function calls itself with the
\* arguments it was called with.
Wake(p) ==
    /\ pc[p] = "sleep"
    /\ CanRun(p)
    /\ IF call[p][1] = "get-document"
       THEN Issue(p, GetRequest(params[p]), "get_wait")
       ELSE Issue(p, PostRequest(call[p][2].url), "post_wait")
    /\ UNCHANGED <<documents, call, params, results, out, recv, sleeps>>

\* send_resource_list_changed() is done: handle_call_tool returns its text.
Notified(p) ==
    /\ pc[p] = "notify"
    /\ CanRun(p)
    /\ Leave(p, IF call[p][1] = "get-document"
                THEN DocumentsFound(results[p])
                ELSE out[p])
    /\ UNCHANGED <<documents, call, params, results, sent, recv, sleeps, nreqs>>


\* list_resources: "for document in documents" walks the keys of the dict, which
\* are str, and document.title of a str raises AttributeError.
ListResourcesOn(store) ==
    IF DictIter(store) = << >>
    THEN Outcome("resources", None, None, None, << >>)
    ELSE Error("AttributeError", "'str' object has no attribute 'title'")

\* path.lstrip("/")
Lstrip(path) ==
    CASE path = "/T1" -> "T1"
      [] path = "/T2" -> "T2"
      [] path = "/T9" -> "T9"
      [] OTHER -> path

\* read_resource with documents.get(name): a missing title yields an empty
\* value instead of raising.
ReadResourceOn_GetDefault(store, uri) ==
    IF uri.scheme # "document"
    THEN Error("ValueError", "Unsupported URI scheme")
    ELSE IF uri.path # None
    THEN LET name == Lstrip(uri.path) IN
         IF name \in Keys(store)
         THEN Outcome("document", None, None, None, <<GetItem(store, name)>>)
         ELSE Outcome("document", None, None, None, << >>)
    ELSE Error("ValueError", "Note not found")

\* read_resource
ReadResourceOn(store, uri) ==
    IF uri.scheme # "document"
    THEN Error("ValueError", "Unsupported URI scheme")
    ELSE IF uri.path # None
    THEN LET name == Lstrip(uri.path) IN
         IF name \in Keys(store)
         THEN Outcome("document", None, None, None, <<GetItem(store, name)>>)
         ELSE Error("KeyError", name)
    ELSE Error("ValueError", "Note not found")

\* handle_get_prompt: one line per item of the store.
GetPromptOn(store, name, style) ==
    IF name # "summarize-notes"
    THEN Error("ValueError", "Unknown prompt")
    ELSE Outcome("prompt", None,
                 IF style = "detailed" THEN " Give extensive details." ELSE "",
                 None,
                 [i \in 1..Len(store) |-> <<store[i].key, store[i].doc>>])

\* Atomic for handlers that drop the oldest entry of the store they read.
Atomic_Evicts(p, c, o) ==
    /\ Free(p)
    /\ Enter(p, c)
    /\ Leave(p, o)
    /\ params' = [params EXCEPT ![p] = NoParams]
    /\ results' = [results EXCEPT ![p] = << >>]
    /\ sent' = [sent EXCEPT ![p] = << >>]
    /\ documents' = IF documents = << >> THEN documents ELSE Tail(documents)
    /\ UNCHANGED nreqs

\* A handler with no await in it: it runs from entry to end in one step.
Atomic(p, c, o) ==
    /\ Free(p)
    /\ Enter(p, c)
    /\ Leave(p, o)
    /\ params' = [params EXCEPT ![p] = NoParams]
    /\ results' = [results EXCEPT ![p] = << >>]
    /\ sent' = [sent EXCEPT ![p] = << >>]
    /\ UNCHANGED <<documents, nreqs>>

ListResources(p) ==
    Atomic(p, <<"list_resources", NoArgs>>, ListResourcesOn(documents))

ReadResource(p, uri) ==
    Atomic(p, <<"read_resource", uri>>, ReadResourceOn(documents, uri))

GetPrompt(p, name, style) ==
    Atomic(p, <<"get_prompt", [name |-> name, style |-> style]>>,
           GetPromptOn(documents, name, style))

\* The host takes the outcome of the ended handler p; the slot is free again.
Collect(p) ==
    /\ pc[p] = "done"
    /\ pc' = [pc EXCEPT ![p] = "idle"]
    /\ call' = [call EXCEPT ![p] = <<"none", NoArgs>>]
    /\ params' = [params EXCEPT ![p] = NoParams]
    /\ results' = [results EXCEPT ![p] = << >>]
    /\ out' = [out EXCEPT ![p] = NoOut]
    /\ sent' = [sent EXCEPT ![p] = << >>]
    /\ recv' = [recv EXCEPT ![p] = << >>]
    /\ sleeps' = [sleeps EXCEPT ![p] = << >>]
    /\ UNCHANGED <<documents, nreqs>>

Next ==
    \E p \in Procs :
        \/ Collect(p)
        \/ \E c \in ToolCalls : CallTool(p, c[1], c[2])
        \/ \E r \in GetResponses : RecvGet(p, r)
        \/ \E r \in PostResponses : RecvPost(p, r)
        \/ Wake(p)
        \/ Notified(p)
        \/ ListResources(p)
        \/ \E uri \in Uris : ReadResource(p, uri)
        \/ \E c \in PromptCalls : GetPrompt(p, c[1], c[2])

Spec == Init /\ [][Next]_vars


\* The event loop runs its ready callbacks in arrival order, so a handler
\* whose response can be delivered or whose sleep has ended is resumed, however
\* often the other handler runs, and the host takes the outcome of an ended
\* handler; the remote service answers every list request.  MaxRequests stands
\* for the remote service ending its rate limiting and its cursor chain: the
\* last request it allows is answered with neither a 429 nor a cursor.
Fairness ==
    \A p \in Procs :
        /\ SF_vars(\E r \in GetResponses : RecvGet(p, r))
        /\ WF_vars(Wake(p))
        /\ WF_vars(Collect(p))

FairSpec == Spec /\ Fairness

(***************************************************************************)
(* What the logs of a handler say.                                         *)
(***************************************************************************)
Last(seq) == seq[Len(seq)]

RECURSIVE Flatten(_)
Flatten(seqs) == IF seqs = << >> THEN << >> ELSE Head(seqs) \o Flatten(Tail(seqs))

IsPage(r) == r.status # 429 /\ r.body.kind = "page"

\* The list pages among the responses of a log, in order of arrival.
PagesOf(log) == SelectSeq(log, IsPage)

ResultsOf(pages) == Flatten([i \in 1..Len(pages) |-> pages[i].body.results])

\* Every page but the last names a next page, and the last names none.
CursorChain(pages) ==
    /\ pages # << >>
    /\ \A i \in 1..Len(pages) : Truthy(pages[i].body.cursor) <=> i < Len(pages)

IsRateLimit(r) == r.status = 429 /\ r.retryAfter # None

\* The Retry-After seconds of the rate-limit responses of a log, in order.
RetryAfters(log) ==
    LET limited == SelectSeq(log, IsRateLimit)
    IN  [i \in 1..Len(limited) |-> IntOf(limited[i].retryAfter)]

Serving(p, name) == pc[p] # "idle" /\ call[p][1] = name

\* fetch_documents has returned to handle_call_tool in handler p.
FetchReturned(p) ==
    /\ Serving(p, "get-document")
    /\ \/ pc[p] = "notify"
       \/ pc[p] = "done" /\ out[p].kind = "text"

(***************************************************************************)
(* C1: when the list pages a fetch receives are p1..pn, every one but the  *)
(* last naming a next page and the last naming none, fetch_documents       *)
(* returns results(p1) ++ ... ++ results(pn): nothing dropped (the last    *)
(* page included), nothing duplicated, order kept.                         *)
(***************************************************************************)
C1_FetchReturnsAllPages ==
    \A p \in Procs :
        FetchReturned(p) /\ CursorChain(PagesOf(recv[p]))
            => results[p] = ResultsOf(PagesOf(recv[p]))

\* A fetch of three pages, each with documents, has returned.
C1_Witness ==
    \E p \in Procs :
        /\ FetchReturned(p)
        /\ CursorChain(PagesOf(recv[p]))
        /\ Len(PagesOf(recv[p])) = 3
        /\ \A i \in 1..3 : PagesOf(recv[p])[i].body.results # << >>

(***************************************************************************)
(* C2: a list request answered 429 k times and then with a success is sent *)
(* k+1 times with identical parameters, sleep() is called with each        *)
(* Retry-After before the next attempt, the 429s never end the call, and   *)
(* the page of the successful response is the one that is used.            *)
(***************************************************************************)
C2_GetRetriesOn429 ==
    \A p \in Procs :
        Serving(p, "get-document") =>
            /\ Len(sent[p]) = Len(recv[p]) + (IF pc[p] = "get_wait" THEN 1 ELSE 0)
            /\ \A i \in 1..Len(recv[p]) :
                  IsRateLimit(recv[p][i]) =>
                      /\ i < Len(sent[p]) => sent[p][i + 1] = sent[p][i]
                      /\ i = Len(recv[p]) => pc[p] \in {"sleep", "get_wait"}
            /\ sleeps[p] = RetryAfters(recv[p])
            /\ pc[p] = "sleep" => IsRateLimit(Last(recv[p]))
            /\ results[p] = ResultsOf(PagesOf(recv[p]))

\* Two 429s with different Retry-After values, then a page: three requests.
C2_Witness ==
    \E p \in Procs :
        /\ FetchReturned(p)
        /\ Len(recv[p]) = 3
        /\ IsRateLimit(recv[p][1]) /\ IsRateLimit(recv[p][2])
        /\ recv[p][1].retryAfter # recv[p][2].retryAfter
        /\ recv[p][3].status = 200
        /\ results[p] # << >>


(***************************************************************************)
(* C3: a get-document whose location is outside VALID_LOCATIONS, or whose  *)
(* category is a value outside VALID_CATEGORIES, ends in an error and has  *)
(* issued no request.                                                      *)
(***************************************************************************)
C3_InvalidQueryFailsFast ==
    \A p \in Procs :
        /\ Serving(p, "get-document")
        /\ \/ call[p][2].location \notin VALID_LOCATIONS
           \/ /\ call[p][2].category # None
              /\ call[p][2].category \notin VALID_CATEGORIES
        => /\ pc[p] = "done"
           /\ out[p].kind = "error"
           /\ sent[p] = << >>

(***************************************************************************)
(* C4: a save whose final response is 200 makes add-document answer        *)
(* "Document already exists with the ID: <id>", and one whose final        *)
(* response is 201 makes it answer "Added document with the ID: <id>",     *)
(* with the id parsed from the response.                                   *)
(***************************************************************************)
C4_SaveStatusDecidesExisted ==
    \A p \in Procs :
        /\ Serving(p, "add-document")
        /\ recv[p] # << >>
        /\ Last(recv[p]).status \in {200, 201}
        /\ ParsePostResponse(Last(recv[p]).body)
        => /\ pc[p] \in {"notify", "done"}
           /\ out[p] = AddDocumentOnSaved(Last(recv[p]).status = 200,
                                          Last(recv[p]).body)

(***************************************************************************)
(* C5: a save answered 429 (with Retry-After) is not an error for the      *)
(* caller: _post_request sleeps and sends the same POST again.             *)
(***************************************************************************)
C5_PostRetriesOn429 ==
    \A p \in Procs :
        /\ Serving(p, "add-document")
        /\ recv[p] # << >>
        /\ IsRateLimit(Last(recv[p]))
        => /\ pc[p] \in {"sleep", "post_wait"}
           /\ Len(recv[p]) < Len(sent[p]) => Last(sent[p]) = sent[p][1]

(***************************************************************************)
(* C6: a list response whose status is neither 2xx nor 429 ends the call   *)
(* in an error, whatever its body: it is the last response of the call and *)
(* its body is never taken as a page of documents.                         *)
(***************************************************************************)
C6_GetErrorStatusRaises ==
    \A p \in Procs :
        Serving(p, "get-document") =>
            \A i \in 1..Len(recv[p]) :
                recv[p][i].status \notin (200..299) \cup {429} =>
                    /\ i = Len(recv[p])
                    /\ pc[p] = "done"
                    /\ out[p].kind = "error"

(***************************************************************************)
(* C7: a save response whose status is none of 200, 201, 429 makes         *)
(* _post_request raise: add-document ends in an error and reports neither  *)
(* "added" nor "already exists".                                           *)
(***************************************************************************)
C7_PostOtherStatusRaises ==
    \A p \in Procs :
        /\ Serving(p, "add-document")
        /\ recv[p] # << >>
        /\ Last(recv[p]).status \notin {200, 201, 429}
        => /\ pc[p] = "done"
           /\ out[p].kind = "error"

\* A save answered 204 with a well-formed body has ended in an error.
C7_Witness ==
    \E p \in Procs :
        /\ Serving(p, "add-document")
        /\ recv[p] = <<Response(204, None, SavedBody("id9", "r9"))>>
        /\ pc[p] = "done"
        /\ out[p].kind = "error"

(***************************************************************************)
(* C8: the store holds at most one entry per title, filed under the title  *)
(* of its document, and a get-document that stores its fetch leaves under  *)
(* each fetched title the last fetched document of that title and every    *)
(* other entry as it was.                                                  *)
(***************************************************************************)
Titles == {d.title : d \in Docs}

OneEntryPerTitle ==
    \A i, j \in 1..Len(documents) :
        /\ documents[i].key = documents[i].doc.title
        /\ documents[i].key = documents[j].key => i = j

\* The last document of the list that has title t.
LastWithTitle(fetched, t) ==
    LET at == {i \in 1..Len(fetched) : fetched[i].title = t}
    IN  fetched[CHOOSE i \in at : \A j \in at : j <= i]

\* Handler p stores its fetch in this step.
Stores(p) == pc[p] = "get_wait" /\ pc'[p] = "notify"

LastUpsertWins ==
    \A p \in Procs :
        Stores(p) =>
            \A t \in Titles :
                IF \E i \in 1..Len(results'[p]) : results'[p][i].title = t
                THEN /\ t \in Keys(documents')
                     /\ GetItem(documents', t) = LastWithTitle(results'[p], t)
                ELSE /\ t \in Keys(documents') <=> t \in Keys(documents)
                     /\ t \in Keys(documents) =>
                            GetItem(documents', t) = GetItem(documents, t)

C8_StoreKeepsLastPerTitle == []OneEntryPerTitle /\ [][LastUpsertWins]_vars

\* A fetch that held two documents of one title, d1 then d2, has been stored:
\* one entry of that title, holding d2, beside the entry of another title.
C8_Witness ==
    \E p \in Procs :
        /\ pc[p] = "notify"
        /\ results[p] = <<d1, d2>>
        /\ documents = <<Item("T2", d3), Item("T1", d2)>>

(***************************************************************************)
(* C9: when fetch_documents returns no document, get-document answers      *)
(* exactly "No documents found." and the step leaves the store as it was.  *)
(***************************************************************************)
\* fetch_documents returns in this step of handler p, with an empty list.
ReturnsNothing(p) ==
    /\ pc[p] = "get_wait"
    /\ pc'[p] \in {"notify", "done"}
    /\ out'[p].kind # "error"
    /\ results'[p] = << >>

EmptyFetchStep ==
    \A p \in Procs :
        ReturnsNothing(p) =>
            /\ pc'[p] = "done"
            /\ out'[p] = TextContent("No documents found.", None, << >>)
            /\ documents' = documents

C9_EmptyFetchLeavesStore == [][EmptyFetchStep]_vars

\* A fetch of two empty pages has been answered "No documents found." while
\* the store holds documents.
C9_Witness ==
    \E p \in Procs :
        /\ Serving(p, "get-document")
        /\ pc[p] = "done"
        /\ out[p].msg = "No documents found."
        /\ Len(recv[p]) = 2
        /\ documents # << >>

(***************************************************************************)
(* C10: the store changes only in the step of a get-document in which its  *)
(* fetch returns; no step of add-document, list_resources, read_resource,  *)
(* handle_get_prompt, _get_request or _post_request changes it.            *)
(***************************************************************************)
StoreChangesOnlyOnFetch ==
    documents' # documents =>
        \E p \in Procs : call[p][1] = "get-document" /\ Stores(p)

C10_OnlyFetchChangesStore == [][StoreChangesOnlyOnFetch]_vars

\* With documents in the store, a read_resource has returned one of them and a
\* save has failed.
C10_Witness ==
    \E p \in Procs :
        /\ documents # << >>
        /\ pc[p] = "done"
        /\ \/ call[p][1] = "read_resource" /\ out[p].kind = "document"
           \/ call[p][1] = "add-document" /\ out[p].kind = "error" /\ recv[p] # << >>


(***************************************************************************)
(* C11: while one handler is between a 429 and its retry, waiting out      *)
(* Retry-After, every other handler can take a step: a pending one can go  *)
(* on, a free slot can serve a new request.                                *)
(***************************************************************************)
\* Some step of handler q.
Progress(q) ==
    \/ \E c \in ToolCalls : CallTool(q, c[1], c[2])
    \/ \E r \in GetResponses : RecvGet(q, r)
    \/ \E r \in PostResponses : RecvPost(q, r)
    \/ Notified(q)
    \/ ListResources(q)
    \/ \E uri \in Uris : ReadResource(q, uri)
    \/ \E c \in PromptCalls : GetPrompt(q, c[1], c[2])

C11_SleepDoesNotBlockOthers ==
    \A p, q \in Procs :
        pc[p] = "sleep" /\ q # p => ENABLED Progress(q)


(***************************************************************************)
(* C12: in every state of the store list_resources succeeds and returns    *)
(* one resource per stored document, in store order: uri                   *)
(* readwise://list/<title>, name "Document: <title>", description the      *)
(* summary or "No summary available"; the empty list for an empty store.   *)
(***************************************************************************)
\* "/" + title, the path of the URI of a title.
PathOf(title) ==
    CASE title = "T1" -> "/T1"
      [] title = "T2" -> "/T2"
      [] OTHER -> "/T9"

\* types.Resource(uri=..., name=..., description=..., mimeType=...) of a Document.
Resource(document) ==
    [uri |-> Uri("readwise", "list", PathOf(document.title)),
     name |-> <<"Document: ", document.title>>,
     description |-> IF Truthy(document.summary) THEN document.summary
                     ELSE "No summary available",
     mimeType |-> "application/json"]

C12_ListResourcesEnumeratesStore ==
    \A p \in Procs :
        Serving(p, "list_resources") /\ pc[p] = "done" =>
            out[p] = Outcome("resources", None, None, None,
                             [i \in 1..Len(documents) |-> Resource(documents[i].doc)])


(***************************************************************************)
(* C13: two fetches that run at the same time do not interfere: every      *)
(* request of each carries the location, category and updatedAfter of its  *)
(* own call and the cursor of its own latest page, and the documents each  *)
(* has gathered are those of the pages it was answered itself, as when it  *)
(* runs alone.                                                             *)
(***************************************************************************)
\* Handler p is inside fetch_documents or has just stored its result.
Fetching(p) ==
    Serving(p, "get-document") /\ pc[p] \in {"get_wait", "sleep", "notify"}

\* The query of the call handler p serves, as fetch_documents builds it.
OwnQuery(p) == CallToolEntry(call[p][1], call[p][2]).params

\* The cursor of the latest page among the first n responses of handler p.
CursorAfter(p, n) ==
    LET pages == PagesOf(SubSeq(recv[p], 1, n))
    IN  IF pages = << >> THEN None ELSE Last(pages).body.cursor

SendsOwnQuery(p) ==
    \A i \in 1..Len(sent[p]) :
        /\ sent[p][i].params.location = OwnQuery(p).location
        /\ sent[p][i].params.category = OwnQuery(p).category
        /\ sent[p][i].params.updatedAfter = OwnQuery(p).updatedAfter
        /\ sent[p][i].params.pageCursor = CursorAfter(p, i - 1)

C13_ConcurrentFetchesIndependent ==
    \A p, q \in Procs :
        p # q /\ Fetching(p) /\ Fetching(q) =>
            /\ SendsOwnQuery(p)
            /\ results[p] = ResultsOf(PagesOf(recv[p]))

\* Two fetches with different queries in progress: one has stored its page, the
\* other, started before that, is at its second request with a cursor.
C13_Witness ==
    \E p, q \in Procs :
        /\ p # q /\ Fetching(p) /\ Fetching(q)
        /\ OwnQuery(p).location # OwnQuery(q).location
        /\ OwnQuery(p).category # OwnQuery(q).category
        /\ pc[p] = "get_wait" /\ Len(sent[p]) = 2 /\ results[p] # << >>
        /\ pc[q] = "notify" /\ results[q] # << >> /\ results[q] # results[p]


(***************************************************************************)
(* C14: the store only grows: in every step the titles held after the step *)
(* include the titles held before it; a stored title is never removed.     *)
(***************************************************************************)
TitlesKept == Keys(documents) \subseteq Keys(documents')

C14_StoreGrowsMonotonically == [][TitlesKept]_vars

\* A second fetch has just stored a new title next to the one already held.
C14_Witness ==
    \E p \in Procs :
        /\ Serving(p, "get-document") /\ pc[p] = "notify"
        /\ results[p] = <<d3>>
        /\ Keys(documents) = {"T1", "T2"}


(***************************************************************************)
(* C15: read_resource for a title that is not in the store ends in an      *)
(* error, never in a document, an empty value or a null, and leaves the    *)
(* store as it was.                                                        *)
(***************************************************************************)
\* The URI names no stored title.
Missing(uri) == uri.path = None \/ Lstrip(uri.path) \notin Keys(documents)

\* A step in which handler p serves read_resource from entry to end.
Reads(p) ==
    pc[p] = "idle" /\ pc'[p] = "done" /\ call'[p][1] = "read_resource"

ReadMissingRaises ==
    \A p \in Procs :
        Reads(p) /\ Missing(call'[p][2]) =>
            /\ out'[p].kind = "error"
            /\ out'[p].items = << >>
            /\ documents' = documents

C15_ReadMissingTitleRaises == [][ReadMissingRaises]_vars

\* A well-formed document URI whose title the non-empty store does not hold
\* has been read and has raised KeyError.
C15_Witness ==
    \E p \in Procs :
        /\ Serving(p, "read_resource") /\ pc[p] = "done"
        /\ call[p][2].scheme = "document" /\ call[p][2].path # None
        /\ Lstrip(call[p][2].path) \notin Keys(documents)
        /\ documents # << >>
        /\ out[p].exc = "KeyError"


(***************************************************************************)
(* C16: the requests of one fetch_documents call form a cursor chain: the  *)
(* first carries no pageCursor, a request that follows a page carries that *)
(* page's next_page_cursor (a retry after a 429 repeats the request), the  *)
(* location, category, updatedAfter and withHtmlContent are those of the   *)
(* first request throughout, and at most one request is unanswered.        *)
(***************************************************************************)
SameQuery(a, b) ==
    /\ a.location = b.location
    /\ a.category = b.category
    /\ a.updatedAfter = b.updatedAfter
    /\ a.withHtmlContent = b.withHtmlContent

InFlight(p) == Len(sent[p]) - Len(recv[p])

C16_RequestsFormCursorChain ==
    \A p \in Procs :
        Serving(p, "get-document") =>
            /\ InFlight(p) \in {0, 1}
            /\ \A i \in 1..Len(sent[p]) :
                /\ sent[p][i].method = "GET"
                /\ SameQuery(sent[p][i].params, sent[p][1].params)
                /\ i = 1 => sent[p][i].params.pageCursor = None
                /\ i > 1 /\ IsPage(recv[p][i - 1]) =>
                      sent[p][i].params.pageCursor = recv[p][i - 1].body.cursor
                /\ i > 1 /\ ~IsPage(recv[p][i - 1]) =>
                      sent[p][i].params = sent[p][i - 1].params

\* A fetch at its third request, after two pages with different cursors.
C16_Witness ==
    \E p \in Procs :
        /\ Serving(p, "get-document") /\ pc[p] = "get_wait"
        /\ Len(sent[p]) = 3 /\ InFlight(p) = 1
        /\ sent[p][2].params.pageCursor = "cA"
        /\ sent[p][3].params.pageCursor = "cB"


(***************************************************************************)
(* C17: fetch_documents stops at the first page without a next_page_cursor *)
(* and sends no request after it; while every page it has been given names *)
(* a next page it has not returned, and a request is out after each such   *)
(* page; and when the remote service answers every request and ends its    *)
(* rate limiting and its cursor chain, a fetch that awaits a response      *)
(* comes to its end.                                                       *)
(***************************************************************************)
IsLastPage(r) == IsPage(r) /\ ~Truthy(r.body.cursor)

IsCursorPage(r) == IsPage(r) /\ Truthy(r.body.cursor)

StopsAtLastPage(p) ==
    \A i \in 1..Len(recv[p]) :
        IsLastPage(recv[p][i]) =>
            /\ i = Len(recv[p])
            /\ Len(sent[p]) = i
            /\ FetchReturned(p)

KeepsRequesting(p) ==
    /\ (\A i \in 1..Len(recv[p]) : ~IsLastPage(recv[p][i])) => ~FetchReturned(p)
    /\ recv[p] # << >> /\ IsCursorPage(Last(recv[p])) =>
          pc[p] = "get_wait" /\ InFlight(p) = 1

FetchStops ==
    \A p \in Procs :
        Serving(p, "get-document") => StopsAtLastPage(p) /\ KeepsRequesting(p)

FetchEnds ==
    \A p \in Procs :
        (Serving(p, "get-document") /\ pc[p] = "get_wait")
            ~> (pc[p] \in {"notify", "done"})

C17_FetchStopsAtLastPage == []FetchStops /\ FetchEnds

\* A fetch has returned on its third page, the first without a cursor.
C17_Witness ==
    \E p \in Procs :
        /\ FetchReturned(p)
        /\ Len(recv[p]) = 3
        /\ IsCursorPage(recv[p][1]) /\ IsCursorPage(recv[p][2])
        /\ IsLastPage(recv[p][3])


(***************************************************************************)
(* C18: get-document is all-or-nothing on the store: documents reach the   *)
(* store only in the step that receives the last page of the fetch, the    *)
(* step in which a page request fails leaves the store as it is, and a     *)
(* call that has failed has never stored, whatever pages it got before.    *)
(***************************************************************************)
\* The step in which the fetch of handler p gets a response.
Receives(p) ==
    /\ Serving(p, "get-document") /\ pc[p] = "get_wait"
    /\ Len(recv'[p]) = Len(recv[p]) + 1

StoresOnLastPageOnly ==
    documents' # documents =>
        \E p \in Procs :
            /\ Receives(p)
            /\ IsLastPage(Last(recv'[p]))
            /\ documents' = UpsertAll(documents, results'[p])

FailingStepKeepsStore ==
    \A p \in Procs :
        Receives(p) /\ pc'[p] = "done" /\ out'[p].kind = "error" =>
            documents' = documents

FailedFetchNeverStored ==
    \A p \in Procs :
        Serving(p, "get-document") /\ pc[p] = "done" /\ out[p].kind = "error" =>
            \A i \in 1..Len(recv[p]) : ~IsLastPage(recv[p][i])

C18_GetDocumentAllOrNothing ==
    /\ []FailedFetchNeverStored
    /\ [][StoresOnLastPageOnly /\ FailingStepKeepsStore]_vars

\* A fetch has failed on its second page with the documents of the first in
\* hand, and the store is still empty.
C18_Witness ==
    \E p \in Procs :
        /\ Serving(p, "get-document") /\ pc[p] = "done" /\ out[p].kind = "error"
        /\ Len(recv[p]) = 2
        /\ IsCursorPage(recv[p][1]) /\ recv[p][1].body.results # << >>
        /\ results[p] = recv[p][1].body.results
        /\ documents = << >>


(***************************************************************************)
(* C19: listing and reading round-trip: list_resources exposes one URI per *)
(* stored document, and read_resource accepts each of them and returns the *)
(* document stored under the title the URI carries.                        *)
(***************************************************************************)
\* read_resource on the URI returns the document.
ReadsBack(uri, document) ==
    ReadResourceOn(documents, uri) =
        Outcome("document", None, None, None, <<document>>)

\* list_resources as a whole yields a URI for each document, which reads back.
ListedUrisReadBack ==
    LET listed == ListResourcesOn(documents) IN
        /\ listed.kind = "resources"
        /\ Len(listed.items) = Len(documents)
        /\ \A i \in 1..Len(listed.items) :
              ReadsBack(listed.items[i].uri, documents[i].doc)

\* The URI the comprehension of list_resources builds for a stored Document
\* reads back.
BuiltUrisReadBack ==
    \A i \in 1..Len(documents) :
        ReadsBack(Resource(documents[i].doc).uri, documents[i].doc)

C19_ListReadRoundTrip == ListedUrisReadBack /\ BuiltUrisReadBack


(***************************************************************************)
(* C20: the upsert of a fetch is atomic for the other requests: whenever a *)
(* get-document is at or past its notification, every title it fetched is *)
(* in the store, and what a handle_get_prompt or a read_resource run by    *)
(* another handler at that time reads from the store holds all of them.    *)
(***************************************************************************)
FetchedTitles(p) == {results[p][i].title : i \in 1..Len(results[p])}

\* The titles in the outcome of a summarize-notes prompt.
PromptTitles(o) == {o.items[i][1] : i \in 1..Len(o.items)}

\* What handler q has just read from the store holds the titles of p's fetch.
SeesWholeFetch(q, p) ==
    /\ Serving(q, "get_prompt") /\ out[q].kind = "prompt" =>
          FetchedTitles(p) \subseteq PromptTitles(out[q])
    /\ /\ Serving(q, "read_resource")
       /\ call[q][2].scheme = "document" /\ call[q][2].path # None
       /\ Lstrip(call[q][2].path) \in FetchedTitles(p)
       => out[q].kind = "document"

C20_UpsertAtomicBeforeNotification ==
    \A p \in Procs :
        FetchReturned(p) =>
            /\ FetchedTitles(p) \subseteq Keys(documents)
            /\ \A q \in Procs \ {p} : pc[q] = "done" => SeesWholeFetch(q, p)

\* A fetch of two titles is at its notification while the other handler has
\* read the store for a prompt.
C20_Witness ==
    \E p, q \in Procs :
        /\ p # q
        /\ Serving(p, "get-document") /\ pc[p] = "notify"
        /\ FetchedTitles(p) = {"T1", "T2"}
        /\ Serving(q, "get_prompt") /\ pc[q] = "done"
        /\ PromptTitles(out[q]) = {"T1", "T2"}

====
